---- MODULE Spec2Model ----
(***************************************************************************)
(* CFileAnalyzer (src/src/c_analyzer/import_extractor.rs): the include     *)
(* resolver, the import graph and the recursive dependency walker, over a  *)
(* small filesystem of C files.                                            *)
(*                                                                         *)
(* A path is a pair <<directory, relative name>>.  A file's text is        *)
(* abstracted to what the walker reads from it: the ordered list of its    *)
(* #include directives (relative path text, is_system).  The declaration   *)
(* lists (functions, types, macros) are copied from the file's text into   *)
(* its summary without influencing the walk and are left out.              *)
(***************************************************************************)
EXTENDS Naturals, Sequences, FiniteSets

\* ---------------------------------------------------------------- bounds
MaxDir == 2            \* directories 1..MaxDir
MaxName == 2           \* relative file names 1..MaxName
MaxImports == 2        \* #include directives in one file
MaxFiles == 3          \* entries on disk
MaxDirectives == 3     \* #include directives on the whole disk
MaxSearchPaths == 2    \* add_include_path calls on one analyzer
MaxRuns == 2           \* analyze_c_file calls
OpsFiles == 2          \* files on the disk when the analyzer is called directly
OpsCalls == 2          \* direct parse_file calls

Dirs == 1..MaxDir
Names == 1..MaxName
Paths == Dirs \X Names
NoPath == <<0, 0>>

VARIABLES
    fs,                \* the disk: path -> entry
    include_paths,     \* CFileAnalyzer.include_paths
    parsed_files,      \* CFileAnalyzer.parsed_files
    import_graph,      \* CFileAnalyzer.import_graph
    pc,                \* "idle" | "enter" | "loop"
    c_file_path,       \* argument of the analyze_c_file call in progress (or last)
    file_path,         \* argument of the analyze_file_recursive call being entered
    stack,             \* activations of analyze_file_recursive, outermost first
    analyzed_headers,  \* the run's HashSet
    summaries,         \* the run's Vec<HeaderSummary>
    result,            \* what the last analyze_c_file call returned
    parse_calls,       \* parse_file calls of the run, in order
    memo_at_call,      \* keys of parsed_files when the run was called
    history            \* completed analyze_c_file calls, in order

vars == <<fs, include_paths, parsed_files, import_graph, pc, c_file_path, file_path,
          stack, analyzed_headers, summaries, result, parse_calls, memo_at_call,
          history>>

analyzer == <<include_paths, parsed_files, import_graph>>
walk == <<pc, c_file_path, file_path, stack, analyzed_headers, summaries, result,
          parse_calls, memo_at_call, history>>

\* ------------------------------------------------------------ filesystem
\* struct Import { path, is_system }
Import == [path : Names, is_system : BOOLEAN]

ImportLists == UNION {[1..n -> Import] : n \in 0..MaxImports}

Absent == [kind |-> "absent", imports |-> <<>>]

\* "ok": a readable C file; "unreadable": the entry exists (Path::exists is
\* true) but fs::read_to_string fails on it: a directory, a file without read
\* permission, text that is not UTF-8.
Entries ==
    [kind : {"ok"}, imports : ImportLists] \cup [kind : {"unreadable"}, imports : {<<>>}]

RECURSIVE SumLen(_, _)
SumLen(f, S) ==
    IF S = {} THEN 0
    ELSE LET p == CHOOSE x \in S : TRUE
         IN Len(f[p].imports) + SumLen(f, S \ {p})

OnDisk == {p \in Paths : fs[p].kind # "absent"}

\* Path::exists
Exists(p) == p \in Paths /\ fs[p].kind # "absent"

\* PathBuf::push of a relative path
Join(dir, text) == <<dir, text>>

\* ----------------------------------------------------------------- maps
Insert(m, k, v) == [x \in DOMAIN m \cup {k} |-> IF x = k THEN v ELSE m[x]]

RECURSIVE FilterMap(_, _)
\* iter().filter_map(f).collect() with f given as a sequence of Option values
FilterMap(s, none) ==
    IF s = <<>> THEN <<>>
    ELSE IF Head(s) = none THEN FilterMap(Tail(s), none)
         ELSE <<Head(s)>> \o FilterMap(Tail(s), none)

\* -------------------------------------------------------------- resolver
RECURSIVE ResolveIn_Last(_, _)
\* the last registered directory holding the path wins
ResolveIn_Last(dirs, import) ==
    IF dirs = <<>> THEN NoPath
    ELSE LET candidate_path == Join(Head(dirs), import.path)
             later == ResolveIn_Last(Tail(dirs), import)
         IN IF later # NoPath THEN later
            ELSE IF Exists(candidate_path) THEN candidate_path ELSE NoPath

RECURSIVE ResolveIn(_, _)
\* for include_path in &self.include_paths: the first candidate that exists
ResolveIn(dirs, import) ==
    IF dirs = <<>> THEN NoPath
    ELSE LET candidate_path == Join(Head(dirs), import.path)
         IN IF Exists(candidate_path) THEN candidate_path
            ELSE ResolveIn(Tail(dirs), import)

\* the directory of the including file is searched first
resolve_import_Sibling(current_file, import) ==
    IF Exists(Join(current_file[1], import.path))
    THEN Join(current_file[1], import.path)
    ELSE ResolveIn(include_paths, import)

resolve_import(current_file, import) == ResolveIn(include_paths, import)

\* ---------------------------------------------------------------- parser
extract_imports(path) == fs[path].imports

\* The Result of parse_file.  Parser::parse returns None only without a
\* language, on a timeout or on cancellation; new() sets the language and no
\* timeout or cancellation flag is ever set, so the ParseError branch is dead.
ParseOutcome(path) ==
    IF fs[path].kind \in {"absent", "unreadable"} THEN "IoError" ELSE "Ok"

parse_content(path) == [path |-> path, imports |-> extract_imports(path)]

GraphEdges(path, imports) ==
    FilterMap([i \in 1..Len(imports) |-> resolve_import(path, imports[i])], NoPath)

\* the two maps after a successful parse_file(path)
ParsedAfter(path) == Insert(parsed_files, path, parse_content(path))

\* no entry is written for a file none of whose imports resolve
GraphAfter_SkipEmpty(path) ==
    IF GraphEdges(path, ParsedAfter(path)[path].imports) = <<>>
    THEN import_graph
    ELSE Insert(import_graph, path, GraphEdges(path, ParsedAfter(path)[path].imports))

GraphAfter(path) ==
    Insert(import_graph, path, GraphEdges(path, ParsedAfter(path)[path].imports))

\* ---------------------------------------------------------------- walker
\* the visited check never hits
IsAnalyzed_Never(path) == FALSE

\* the visited check also consults the analyzer's memo
IsAnalyzed_Memo(path) == path \in analyzed_headers \/ path \in DOMAIN parsed_files

\* analyzed_headers.contains(file_path)
IsAnalyzed(path) == path \in analyzed_headers

\* the path is not recorded
MarkAnalyzed_Skip(set, path) == set

\* analyzed_headers.insert(file_path)
MarkAnalyzed(set, path) == set \cup {path}

\* only the first resolved local import is followed
ImportsToAnalyze_FirstOnly(path, imports) ==
    LET all == FilterMap([i \in 1..Len(imports) |->
                   IF ~imports[i].is_system THEN resolve_import(path, imports[i])
                   ELSE NoPath], NoPath)
    IN IF all = <<>> THEN <<>> ELSE <<Head(all)>>

\* system imports are followed too
ImportsToAnalyze_All(path, imports) ==
    FilterMap([i \in 1..Len(imports) |-> resolve_import(path, imports[i])], NoPath)

\* a local import that no directory holds is followed into the first directory
ImportsToAnalyze_Strict(path, imports) ==
    FilterMap([i \in 1..Len(imports) |->
                  IF imports[i].is_system THEN NoPath
                  ELSE IF resolve_import(path, imports[i]) # NoPath
                       THEN resolve_import(path, imports[i])
                       ELSE IF include_paths = <<>> THEN NoPath
                            ELSE Join(include_paths[1], imports[i].path)], NoPath)

\* imports_to_analyze: the resolved targets of the imports with !is_system
ImportsToAnalyze(path, imports) ==
    FilterMap([i \in 1..Len(imports) |->
                  IF ~imports[i].is_system THEN resolve_import(path, imports[i])
                  ELSE NoPath], NoPath)

HeaderSummary(parsed_file) == [path |-> parsed_file.path]

\* the path is recorded before parse_file is called
VisitedOnFailure_Marked(set, path) == set \cup {path}

\* parse_file(file_path)? returns before analyzed_headers.insert is reached
VisitedOnFailure(set, path) == set

\* the summary is put in front
PushSummary_Front(sums, summary) == <<summary>> \o sums

\* summaries.push(summary)
PushSummary(sums, summary) == Append(sums, summary)

\* the error carries the summaries accumulated so far
ErrResult_Partial(e, sums) == [status |-> e, summaries |-> sums]

\* Err(e): `?` drops the summaries vector
ErrResult(e, sums) == [status |-> e, summaries |-> <<>>]

OkResult(sums) == [status |-> "Ok", summaries |-> sums]

NoResult == [status |-> "none", summaries |-> <<>>]

Init ==
    /\ fs = [p \in Paths |-> Absent]
    /\ include_paths = <<>>
    /\ parsed_files = <<>>
    /\ import_graph = <<>>
    /\ pc = "idle"
    /\ c_file_path = NoPath
    /\ file_path = NoPath
    /\ stack = <<>>
    /\ analyzed_headers = {}
    /\ summaries = <<>>
    /\ result = NoResult
    /\ parse_calls = <<>>
    /\ memo_at_call = {}
    /\ history = <<>>

\* The disk is written before the analyzer is used and not touched afterwards.
CreateFile(p, e) ==
    /\ pc = "idle"
    /\ include_paths = <<>>
    /\ history = <<>>
    /\ fs[p] = Absent
    /\ Cardinality(OnDisk) < MaxFiles
    /\ SumLen(fs, Paths) + Len(e.imports) <= MaxDirectives
    /\ fs' = [fs EXCEPT ![p] = e]
    /\ UNCHANGED <<analyzer, walk>>

\* The search directories are registered before the first analysis.
add_include_path(path) ==
    /\ pc = "idle"
    /\ history = <<>>
    /\ Len(include_paths) < MaxSearchPaths
    /\ include_paths' = Append(include_paths, path)
    /\ UNCHANGED <<fs, parsed_files, import_graph, walk>>

\* A second analyzer: new() followed by the same add_include_path calls, as
\* every call of extract_import_summaries does.
new ==
    /\ pc = "idle"
    /\ history # <<>>
    /\ Len(history) < MaxRuns
    /\ parsed_files # <<>>
    /\ parsed_files' = <<>>
    /\ import_graph' = <<>>
    /\ UNCHANGED <<fs, include_paths, walk>>

\* analyze_c_file up to its call of analyze_file_recursive.  The root names an
\* entry of the disk (a missing root fails in read_to_string exactly as an
\* unreadable one does); a later call repeats the analysis of the same root.
analyze_c_file(path) ==
    /\ pc = "idle"
    /\ Len(history) < MaxRuns
    /\ Exists(path)
    /\ IF history = <<>> THEN TRUE ELSE path = history[1].root
    /\ pc' = "enter"
    /\ c_file_path' = path
    /\ file_path' = path
    /\ stack' = <<>>
    /\ analyzed_headers' = {}
    /\ summaries' = <<>>
    /\ parse_calls' = <<>>
    /\ memo_at_call' = DOMAIN parsed_files
    /\ UNCHANGED <<fs, analyzer, result, history>>

\* The default directories extract_import_summaries registers, standing for its
\* five fixed system directories.
DefaultIncludePaths == <<1>>

\* Path::parent
Parent(path) == path[1]

\* extract_import_summaries up to the call of analyze_file_recursive: a new
\* analyzer, the default directories, the root's parent directory, analyze_c_file
extract_import_summaries(path) ==
    /\ pc = "idle"
    /\ history = <<>>
    /\ include_paths = <<>>
    /\ parsed_files = <<>>
    /\ Exists(path)
    /\ include_paths' = Append(DefaultIncludePaths, Parent(path))
    /\ pc' = "enter"
    /\ c_file_path' = path
    /\ file_path' = path
    /\ stack' = <<>>
    /\ analyzed_headers' = {}
    /\ summaries' = <<>>
    /\ parse_calls' = <<>>
    /\ memo_at_call' = {}
    /\ UNCHANGED <<fs, parsed_files, import_graph, result, history>>

Completed(res) ==
    [root |-> c_file_path, include_paths |-> include_paths,
     memo |-> memo_at_call, result |-> res]

\* analyze_file_recursive: the path is already in analyzed_headers, return Ok(())
AlreadyAnalyzed ==
    /\ pc = "enter"
    /\ IsAnalyzed(file_path)
    /\ IF stack = <<>>
       THEN /\ pc' = "idle"
            /\ result' = OkResult(summaries)
            /\ history' = Append(history, Completed(result'))
       ELSE /\ pc' = "loop"
            /\ UNCHANGED <<result, history>>
    /\ UNCHANGED <<fs, analyzer, c_file_path, file_path, stack, analyzed_headers,
                   summaries, parse_calls, memo_at_call>>

\* analyze_file_recursive: parse_file fails and `?` unwinds every activation
ParseFails ==
    /\ pc = "enter"
    /\ ~IsAnalyzed(file_path)
    /\ ParseOutcome(file_path) # "Ok"
    /\ parse_calls' = Append(parse_calls, file_path)
    /\ pc' = "idle"
    /\ stack' = <<>>
    /\ result' = ErrResult(ParseOutcome(file_path), summaries)
    /\ history' = Append(history, Completed(result'))
    /\ analyzed_headers' = VisitedOnFailure(analyzed_headers, file_path)
    /\ UNCHANGED <<fs, analyzer, c_file_path, file_path, summaries, memo_at_call>>

\* analyze_file_recursive: parse_file succeeds; the activation collects its
\* resolved local imports and builds its summary
ParseAndCollect ==
    /\ pc = "enter"
    /\ ~IsAnalyzed(file_path)
    /\ ParseOutcome(file_path) = "Ok"
    /\ parse_calls' = Append(parse_calls, file_path)
    /\ parsed_files' = ParsedAfter(file_path)
    /\ import_graph' = GraphAfter(file_path)
    /\ analyzed_headers' = MarkAnalyzed(analyzed_headers, file_path)
    /\ LET parsed_file == parsed_files'[file_path]
       IN stack' = Append(stack,
            [path |-> file_path,
             imports_to_analyze |-> ImportsToAnalyze(file_path, parsed_file.imports),
             summary |-> HeaderSummary(parsed_file)])
    /\ pc' = "loop"
    /\ UNCHANGED <<fs, include_paths, c_file_path, file_path, summaries, result,
                   memo_at_call, history>>

Top == stack[Len(stack)]

\* analyze_file_recursive: the next iteration of `for import_path in imports_to_analyze`
Recurse ==
    /\ pc = "loop"
    /\ stack # <<>>
    /\ Top.imports_to_analyze # <<>>
    /\ file_path' = Head(Top.imports_to_analyze)
    /\ stack' = [stack EXCEPT ![Len(stack)].imports_to_analyze = Tail(@)]
    /\ pc' = "enter"
    /\ UNCHANGED <<fs, analyzer, c_file_path, analyzed_headers, summaries, result,
                   parse_calls, memo_at_call, history>>

\* analyze_file_recursive: the loop is over, the summary is pushed and the
\* activation returns; the outermost return completes analyze_c_file
Finish ==
    /\ pc = "loop"
    /\ stack # <<>>
    /\ Top.imports_to_analyze = <<>>
    /\ summaries' = PushSummary(summaries, Top.summary)
    /\ stack' = SubSeq(stack, 1, Len(stack) - 1)
    /\ IF Len(stack) = 1
       THEN /\ pc' = "idle"
            /\ result' = OkResult(summaries')
            /\ history' = Append(history, Completed(result'))
       ELSE /\ pc' = "loop"
            /\ UNCHANGED <<result, history>>
    /\ UNCHANGED <<fs, analyzer, c_file_path, file_path, analyzed_headers, parse_calls,
                   memo_at_call>>

Next ==
    \/ \E p \in Paths, e \in Entries : CreateFile(p, e)
    \/ \E d \in Dirs : add_include_path(d)
    \/ new
    \/ \E p \in Paths : analyze_c_file(p)
    \/ \E p \in Paths : extract_import_summaries(p)
    \/ AlreadyAnalyzed
    \/ ParseFails
    \/ ParseAndCollect
    \/ Recurse
    \/ Finish

Spec == Init /\ [][Next]_vars

\* ------------------------------------------- the analyzer called directly
\* A caller that uses parse_file and update_import_graph itself, on any path
\* and in any order, while files and search directories are still being added.

CreateFileOps(p, e) ==
    /\ Cardinality(OnDisk) < OpsFiles
    /\ CreateFile(p, e)

\* parse_file called by the caller of the analyzer
parse_file(path) ==
    /\ pc = "idle"
    /\ history = <<>>
    /\ Len(parse_calls) < OpsCalls
    /\ parse_calls' = Append(parse_calls, path)
    /\ IF ParseOutcome(path) = "Ok"
       THEN /\ parsed_files' = ParsedAfter(path)
            /\ import_graph' = GraphAfter(path)
       ELSE UNCHANGED <<parsed_files, import_graph>>
    /\ UNCHANGED <<fs, include_paths, pc, c_file_path, file_path, stack,
                   analyzed_headers, summaries, result, memo_at_call, history>>

update_import_graph(path) ==
    /\ pc = "idle"
    /\ history = <<>>
    /\ IF path \in DOMAIN parsed_files
       THEN import_graph' =
                Insert(import_graph, path, GraphEdges(path, parsed_files[path].imports))
       ELSE UNCHANGED import_graph
    /\ UNCHANGED <<fs, include_paths, parsed_files, walk>>

NextOps ==
    \/ \E p \in Paths, e \in Entries : CreateFileOps(p, e)
    \/ \E d \in Dirs : add_include_path(d)
    \/ \E p \in Paths : parse_file(p)
    \/ \E p \in Paths : update_import_graph(p)

SpecOps == Init /\ [][NextOps]_vars

\* ------------------------------------------------- the local-include graph
\* What the disk and the search list say, stated without the walker.

\* the positions of the search list whose directory holds the relative path
Holding(name) == {k \in 1..Len(include_paths) : Exists(<<include_paths[k], name>>)}

\* the entry an include of `name` denotes: the earliest registered directory holding it
Target(name) ==
    IF Holding(name) = {} THEN NoPath
    ELSE LET k == CHOOSE i \in Holding(name) : \A j \in Holding(name) : i <= j
         IN <<include_paths[k], name>>

Directives(p) == IF p \in Paths /\ fs[p].kind = "ok" THEN fs[p].imports ELSE <<>>

\* the files p includes locally (quoted includes that resolve)
LocalIncludes(p) ==
    {Target(Directives(p)[i].path) :
        i \in {j \in 1..Len(Directives(p)) : ~Directives(p)[j].is_system}} \ {NoPath}

RECURSIVE Closure(_)
Closure(S) ==
    LET T == S \cup UNION {LocalIncludes(p) : p \in S}
    IN IF T = S THEN S ELSE Closure(T)

\* the files reachable from p via local includes, p included
Reachable(p) == Closure({p})

\* p lies on a cycle of local includes
OnCycle(p) == \E d \in LocalIncludes(p) : p \in Reachable(d)

Acyclic(root) == \A p \in Reachable(root) : ~OnCycle(p)

AllReadable(root) == \A p \in Reachable(root) : fs[p].kind = "ok"

\* the positions of the summaries of path p
Positions(sums, p) == {i \in 1..Len(sums) : sums[i].path = p}

\* an analyze_c_file call has returned and no other is in progress
Returned == pc = "idle" /\ history # <<>>

\* ------------------------------------------------------------------ C1
\* C1: when the local-include graph below the root is acyclic, a successful
\* analyze_c_file returns as many summaries as there are files reachable from
\* the root (the root included), exactly one per reachable file.
C1_OneSummaryPerReachableFile ==
    (Returned /\ result.status = "Ok" /\ Acyclic(c_file_path))
        => /\ Len(result.summaries) = Cardinality(Reachable(c_file_path))
           /\ \A p \in Reachable(c_file_path) :
                  Cardinality(Positions(result.summaries, p)) = 1

\* a successful run over an acyclic graph in which one file is included by two
\* different files, one of which includes the other
C1_Witness ==
    /\ Returned /\ result.status = "Ok" /\ Acyclic(c_file_path)
    /\ Len(result.summaries) = 3
    /\ \E a, b, d \in Reachable(c_file_path) :
          /\ Cardinality({a, b, d}) = 3
          /\ b \in LocalIncludes(a)
          /\ d \in LocalIncludes(a) \cap LocalIncludes(b)

\* ------------------------------------------------------------------ C2
\* the work left in a run: files not yet analyzed, pending imports of the
\* activations, the activations themselves, the call being entered
RECURSIVE Pending(_)
Pending(stk) ==
    IF stk = <<>> THEN 0
    ELSE 1 + 2 * Len(Head(stk).imports_to_analyze) + Pending(Tail(stk))

Rank ==
    (2 * MaxImports + 2) * Cardinality(Paths \ analyzed_headers)
        + Pending(stack) + (IF pc = "enter" THEN 1 ELSE 0)

C2_Progress == (pc # "idle") => (Rank' < Rank)

C2_CycleSummaries ==
    (Returned /\ AllReadable(c_file_path))
        => /\ result.status = "Ok"
           /\ \A i, j \in 1..Len(result.summaries) :
                  result.summaries[i].path = result.summaries[j].path => i = j
           /\ \A b \in LocalIncludes(c_file_path) :
                  (b # c_file_path /\ c_file_path \in LocalIncludes(b))
                      => /\ Cardinality(Positions(result.summaries, c_file_path)) = 1
                         /\ Cardinality(Positions(result.summaries, b)) = 1

\* C2: every step of a run strictly decreases a natural-number rank, so the walk
\* terminates on every include graph, cyclic or not; and when A and B include
\* each other locally, analyze_c_file(A) returns Ok with exactly one summary
\* for A, exactly one for B and no summary twice.
C2_TerminatesOnCycles == [][C2_Progress]_vars /\ []C2_CycleSummaries

\* analyze_c_file(A) has returned Ok where A and B include each other
C2_Witness ==
    /\ Returned /\ result.status = "Ok"
    /\ \E b \in LocalIncludes(c_file_path) :
          /\ b # c_file_path
          /\ c_file_path \in LocalIncludes(b)
          /\ {result.summaries[i].path : i \in 1..Len(result.summaries)}
                 = {c_file_path, b}

\* ------------------------------------------------------------------ C3
Before(sums, d, f) ==
    /\ Positions(sums, d) # {}
    /\ \A i \in Positions(sums, d), j \in Positions(sums, f) : i < j

SummaryPaths(sums) == {sums[i].path : i \in 1..Len(sums)}

\* C3 as stated: in the returned list the summary of every resolved local
\* import d of a file f comes before the summary of f.
C3_DependenciesFirst ==
    (Returned /\ result.status = "Ok")
        => \A f \in SummaryPaths(result.summaries) :
               \A d \in LocalIncludes(f) : Before(result.summaries, d, f)

\* C3 amended: in the returned list the summary of every resolved local import
\* d of a file f comes before the summary of f, unless d itself includes f
\* (directly, transitively, or because d is f).
C3_DependenciesFirstUnlessCyclic ==
    (Returned /\ result.status = "Ok")
        => \A f \in SummaryPaths(result.summaries) :
               \A d \in LocalIncludes(f) :
                   f \notin Reachable(d) => Before(result.summaries, d, f)

\* a successful run in which the root includes a file that lies on a cycle the
\* root is not part of
C3_Witness ==
    /\ Returned /\ result.status = "Ok"
    /\ \E d \in LocalIncludes(c_file_path) :
          /\ c_file_path \notin Reachable(d)
          /\ OnCycle(d)
          /\ Before(result.summaries, d, c_file_path)

\* ------------------------------------------------------------------ C4
\* C4: resolve_import returns the candidate of the earliest registered search
\* directory that holds the import's path, and None when no directory holds it.
C4_FirstRegisteredDirectoryWins ==
    \A current_file \in Paths, import \in Import :
        resolve_import(current_file, import) = Target(import.path)

\* two different registered directories hold the same relative path and a parsed
\* file's import of it was resolved to the earlier one
C4_Witness ==
    /\ Len(include_paths) = 2
    /\ include_paths[1] # include_paths[2]
    /\ \E n \in Names :
          /\ Exists(<<include_paths[1], n>>)
          /\ Exists(<<include_paths[2], n>>)
          /\ \E p \in DOMAIN import_graph : \E k \in 1..Len(import_graph[p]) :
                 import_graph[p][k] = <<include_paths[1], n>>

\* ------------------------------------------------------------------ C5
\* C5: every file the walker parses is the root or the resolved target of a
\* local import of a file parsed earlier in the run, and every summary is of a
\* parsed file: a system include alone makes the walker parse nothing.
C5_SystemIncludesNotTraversed ==
    /\ \A k \in 1..Len(parse_calls) :
           \/ parse_calls[k] = c_file_path
           \/ \E j \in 1..(k - 1) : parse_calls[k] \in LocalIncludes(parse_calls[j])
    /\ \A i \in 1..Len(summaries) :
           \E k \in 1..Len(parse_calls) : parse_calls[k] = summaries[i].path

\* a run has returned Ok after parsing a file whose system include names a file
\* that a registered directory holds, and that file was not parsed
C5_Witness ==
    /\ Returned /\ result.status = "Ok"
    /\ \E k \in 1..Len(parse_calls) :
          \E i \in 1..Len(Directives(parse_calls[k])) :
             LET import == Directives(parse_calls[k])[i]
             IN /\ import.is_system
                /\ Target(import.path) # NoPath
                /\ \A j \in 1..Len(parse_calls) : parse_calls[j] # Target(import.path)

\* ------------------------------------------------------------------ C6
\* C6: when a file reachable from the root cannot be read, analyze_c_file
\* returns an IoError carrying no summary, and the failing parse_file is the
\* last one of the run.
C6_UnreadableFileAbortsRun ==
    (Returned /\ ~AllReadable(c_file_path))
        => /\ result.status = "IoError"
           /\ result.summaries = <<>>
           /\ parse_calls # <<>>
           /\ \A k \in 1..Len(parse_calls) :
                  (fs[parse_calls[k]].kind # "ok") <=> (k = Len(parse_calls))

\* the run was aborted by an unreadable dependency after the root and another
\* dependency had been parsed and a summary had been accumulated
C6_Witness ==
    /\ Returned /\ result.status = "IoError"
    /\ Len(parse_calls) = 3
    /\ fs[parse_calls[3]].kind = "unreadable"
    /\ summaries # <<>>

\* ------------------------------------------------------------------ C7
Range(seq) == {seq[i] : i \in 1..Len(seq)}

\* C7: every entry of the import graph holds exactly the resolved local
\* imports of its file; no edge comes from a system import or from an import
\* that no search directory holds.
C7_GraphHoldsResolvedLocalImports ==
    \A p \in DOMAIN import_graph :
        /\ Range(import_graph[p]) = LocalIncludes(p)
        /\ \A e \in Range(import_graph[p]) : Exists(e)

\* ------------------------------------------------------------------ C8
Unresolved(p) ==
    {j \in 1..Len(Directives(p)) :
        ~Directives(p)[j].is_system /\ Target(Directives(p)[j].path) = NoPath}

\* C8: when every reachable file is readable, analyze_c_file returns Ok, every
\* file with a local import that no search directory holds has its summary, and
\* every summary is of a file reachable through resolved local imports.
C8_UnresolvedImportIsNoError ==
    (Returned /\ AllReadable(c_file_path))
        => \A f \in Reachable(c_file_path) :
               Unresolved(f) # {}
                   => /\ result.status = "Ok"
                      /\ Cardinality(Positions(result.summaries, f)) = 1
                      /\ SummaryPaths(result.summaries) \subseteq Reachable(c_file_path)

\* a run has returned Ok for a root with one local import that resolves and one
\* that no registered directory holds
C8_Witness ==
    /\ Returned /\ result.status = "Ok"
    /\ include_paths # <<>>
    /\ Unresolved(c_file_path) # {}
    /\ LocalIncludes(c_file_path) \ {c_file_path} # {}
    /\ Len(result.summaries) = 2

\* ------------------------------------------------------------------ C9
\* C9: two completed analyze_c_file calls with the same root and the same
\* search list on the unchanged disk returned the same result, whether the
\* later call ran on a new analyzer or on the one the earlier call had filled.
C9_RerunIsDeterministic ==
    \A i, j \in 1..Len(history) :
        (history[i].root = history[j].root
            /\ history[i].include_paths = history[j].include_paths)
            => history[i].result = history[j].result

\* the second call ran on the analyzer whose memo the first call had filled and
\* returned several summaries
C9_Witness ==
    /\ Len(history) = 2
    /\ history[1].memo = {}
    /\ history[2].memo # {}
    /\ history[2].result.status = "Ok"
    /\ Len(history[2].result.summaries) >= 2

\* ----------------------------------------------------------------- C10
C10_NoReparse ==
    \A i, j \in 1..Len(parse_calls) : parse_calls[i] = parse_calls[j] => i = j

C10_SkipStep ==
    (pc = "enter" /\ file_path \in analyzed_headers)
        => /\ parse_calls' = parse_calls
           /\ parsed_files' = parsed_files
           /\ summaries' = summaries
           /\ stack' = stack

\* C10: within a run parse_file is called at most once per path, and entering
\* analyze_file_recursive with a path already in analyzed_headers returns
\* without a parse_file call and without a summary.
C10_ParsedAtMostOncePerRun == []C10_NoReparse /\ [][C10_SkipStep]_vars

ResolvedLocal(p) ==
    {j \in 1..Len(Directives(p)) :
        ~Directives(p)[j].is_system /\ Target(Directives(p)[j].path) # NoPath}

RECURSIVE Calls(_)
\* the analyze_file_recursive calls made by the activations of the given files
Calls(S) ==
    IF S = {} THEN 0
    ELSE LET p == CHOOSE x \in S : TRUE
         IN Cardinality(ResolvedLocal(p)) + Calls(S \ {p})

\* a run has returned Ok in which more recursive calls were made than files
\* were parsed: some call met a path already analyzed
C10_Witness ==
    /\ Returned /\ result.status = "Ok"
    /\ C10_NoReparse
    /\ 1 + Calls(Range(parse_calls)) > Len(parse_calls)

\* ----------------------------------------------------------------- C11
\* C11 as stated: a path is in analyzed_headers from the moment parse_file is
\* called on it, so after a failed parse_file the set holds the failing path.
C11_MarkedBeforeParsed ==
    \A k \in 1..Len(parse_calls) : parse_calls[k] \in analyzed_headers

\* C11 amended: a path enters analyzed_headers only once parse_file has
\* succeeded on it; after a failed parse_file the set holds exactly the paths
\* parsed successfully before and not the failing path.
C11_MarkedAfterParsed ==
    analyzed_headers =
        {parse_calls[k] : k \in {j \in 1..Len(parse_calls) : fs[parse_calls[j]].kind = "ok"}}

\* a run was aborted by a failing parse_file after the root had been parsed; the
\* set holds the root and not the failing path
C11_Witness ==
    /\ Returned /\ result.status = "IoError"
    /\ Len(parse_calls) >= 2
    /\ c_file_path \in analyzed_headers
    /\ parse_calls[Len(parse_calls)] \notin analyzed_headers

\* ----------------------------------------------------------------- C12
C12_SameKeys == DOMAIN parsed_files = DOMAIN import_graph

\* a step that is a call of parse_file: a successful one leaves the path a key
\* of both maps, a failed one leaves both maps as they were
C12_ParseStep ==
    (Len(parse_calls') = Len(parse_calls) + 1)
        => LET p == parse_calls'[Len(parse_calls')]
           IN IF ParseOutcome(p) = "Ok"
              THEN p \in DOMAIN parsed_files' /\ p \in DOMAIN import_graph'
              ELSE parsed_files' = parsed_files /\ import_graph' = import_graph

\* C12: from new() on, after any sequence of operations, parsed_files and
\* import_graph have the same keys; a successful parse_file(p) leaves p a key
\* of both, also when none of p's imports resolve, and a failed parse_file
\* adds a key to neither.
C12_MemoAndGraphShareKeys ==
    /\ []C12_SameKeys
    /\ [][C12_ParseStep]_vars

\* parse_file has failed on one path and succeeded on a file that has
\* directives none of which resolve: the file is a key of both maps, with an
\* empty edge list, and the failed path is a key of neither
C12_Witness ==
    /\ Len(parse_calls) = 2
    /\ ParseOutcome(parse_calls[1]) # "Ok"
    /\ parse_calls[1] \notin DOMAIN parsed_files \cup DOMAIN import_graph
    /\ ParseOutcome(parse_calls[2]) = "Ok"
    /\ Directives(parse_calls[2]) # <<>>
    /\ parse_calls[2] \in DOMAIN parsed_files
    /\ parse_calls[2] \in DOMAIN import_graph
    /\ import_graph[parse_calls[2]] = <<>>

\* ----------------------------------------------------------------- C13
\* over all including files an import has one result
C13_SameForEveryFile ==
    \A import \in Import :
        Cardinality({resolve_import(f, import) : f \in Paths}) = 1

\* every file found for an include lies in a registered directory
C13_FoundInRegisteredDirectory ==
    /\ \A p \in DOMAIN import_graph : \A e \in Range(import_graph[p]) :
           e[1] \in Range(include_paths)
    /\ \A k \in 1..Len(stack) : \A e \in Range(stack[k].imports_to_analyze) :
           e[1] \in Range(include_paths)
    /\ \A k \in 2..Len(parse_calls) : parse_calls[k][1] \in Range(include_paths)

\* the step of extract_import_summaries that registers the directories
C13_ParentRegisteredLast ==
    (include_paths = <<>> /\ include_paths' # <<>> /\ pc' = "enter")
        => /\ include_paths'[Len(include_paths')] = c_file_path'[1]
           /\ \A k \in 1..(Len(include_paths') - 1) :
                  include_paths'[k] \in Range(DefaultIncludePaths)

\* C13: resolve_import gives the same result whatever the including file is; a
\* file is found for an include only in a registered directory, so a file next
\* to the including file is found only if that directory is registered; and
\* extract_import_summaries registers the root's parent directory last, after
\* the default directories.
C13_ResolutionIgnoresIncludingFile ==
    /\ [](C13_SameForEveryFile /\ C13_FoundInRegisteredDirectory)
    /\ [][C13_ParentRegisteredLast]_vars

\* analyze_c_file has returned Ok for a root whose directory is not registered
\* and whose quoted include names a file next to it: the include was not
\* resolved and the neighbour was not parsed
C13_Witness ==
    /\ Returned /\ result.status = "Ok"
    /\ include_paths # <<>>
    /\ c_file_path[1] \notin Range(include_paths)
    /\ \E i \in 1..Len(Directives(c_file_path)) :
          LET import == Directives(c_file_path)[i]
          IN /\ ~import.is_system
             /\ Exists(<<c_file_path[1], import.path>>)
             /\ <<c_file_path[1], import.path>> # c_file_path
             /\ resolve_import(c_file_path, import) = NoPath
    /\ import_graph[c_file_path] = <<>>
    /\ Len(result.summaries) = 1

====
